---------------------------- MODULE Spec2Model ----------------------------
(***************************************************************************)
(* A model of the G-code interpreter of resume_print:                      *)
(*   src/virtual_printer.py  GCodeInstruction, VirtualPrinter, handlers    *)
(*   src/resume_print.py     run_gcode                                     *)
(*                                                                         *)
(* A Python str is a sequence of one-character strings, so that            *)
(* startswith, split, strip, indexing and float() are modelled by what     *)
(* they do.  None is the empty tuple and a number v is <<v>>: an optional  *)
(* numeric field is never a sentinel number.  A raised exception is a      *)
(* record naming its Python type and the content of its message.           *)
(***************************************************************************)
EXTENDS Integers, Sequences, FiniteSets, TLC

VARIABLES
    printer,   \* the VirtualPrinter object: its fields but instruction_set
    instruction_set,   \* the printer's instruction_set: cmd -> GCodeInstruction
    declared,  \* for each cmd, the arguments of the latest register_gcode call for it
    line,      \* the argument of the last process_line call
    err,       \* how the last process_line call ended: Ok or the exception raised
    pre,       \* the printer's fields when the last process_line call began
    gcode,     \* run_gcode: the list it iterates over
    pos,       \* run_gcode: the number of lines the loop has taken from gcode
    pc         \* the caller: "idle", "returned" (a process_line call has ended);
               \* in run_gcode "running", "done", "raised"

vars == <<printer, instruction_set, declared, line, err, pre, gcode, pos, pc>>

-----------------------------------------------------------------------------
(* Bounds of the model *)

\* the largest coordinate / extrusion value a move may produce
MaxCoord == 2
\* the largest number of parameter tokens on a generated command line
MaxArgs == 2
\* the largest number of lines in the list handed to run_gcode
MaxLines == 3

-----------------------------------------------------------------------------
(* Python values *)

None == <<>>
Some(v) == <<v>>

\* the whitespace characters str.strip() and float() remove
Whitespace == {" ", "\t"}

Digits == {"0", "1", "2", "3", "4", "5", "6", "7", "8", "9"}

DigitVal(c) ==
    CASE c = "0" -> 0 [] c = "1" -> 1 [] c = "2" -> 2 [] c = "3" -> 3
      [] c = "4" -> 4 [] c = "5" -> 5 [] c = "6" -> 6 [] c = "7" -> 7
      [] c = "8" -> 8 [] c = "9" -> 9

\* s.startswith(c) for a one-character c
startswith(s, c) == Len(s) > 0 /\ s[1] = c

\* s.strip()
RECURSIVE lstrip(_)
lstrip(s) == IF s # <<>> /\ Head(s) \in Whitespace THEN lstrip(Tail(s)) ELSE s

RECURSIVE rstrip(_)
rstrip(s) ==
    IF s # <<>> /\ s[Len(s)] \in Whitespace
    THEN rstrip(SubSeq(s, 1, Len(s) - 1)) ELSE s

strip(s) == rstrip(lstrip(s))

\* s.split(sep) for a one-character sep: the list of the (possibly empty)
\* pieces between the occurrences of sep; "".split(sep) is [""]
RECURSIVE split(_, _)
split(s, sep) ==
    IF \A k \in 1..Len(s) : s[k] # sep THEN <<s>>
    ELSE LET k == CHOOSE j \in 1..Len(s) :
                      s[j] = sep /\ \A m \in 1..(j - 1) : s[m] # sep
         IN  <<SubSeq(s, 1, k - 1)>> \o split(SubSeq(s, k + 1, Len(s)), sep)

\* the value of a run of decimal digits
RECURSIVE DecimalValue(_)
DecimalValue(s) ==
    IF s = <<>> THEN 0
    ELSE 10 * DecimalValue(SubSeq(s, 1, Len(s) - 1)) + DigitVal(s[Len(s)])

\* float(s): Some(value), or None when float raises ValueError.  The
\* literals of the model are optionally signed runs of digits, with
\* whitespace around them allowed as float() allows it; every other text
\* over the model's alphabet is no number.
float(s) ==
    LET t == strip(s)
        signed == t # <<>> /\ Head(t) \in {"+", "-"}
        body == IF signed THEN Tail(t) ELSE t
    IN  IF body # <<>> /\ \A k \in 1..Len(body) : body[k] \in Digits
        THEN Some(IF signed /\ Head(t) = "-"
                  THEN 0 - DecimalValue(body) ELSE DecimalValue(body))
        ELSE None

\* a dict: a function from its keys
EmptyDict == [k \in {} |-> 0]

\* d with d[k] = v
DictSet(d, k, v) == [j \in DOMAIN d \cup {k} |-> IF j = k THEN v ELSE d[j]]

\* args.get(k, default), for an optional numeric default
get(args, k, default) == IF k \in DOMAIN args THEN Some(args[k]) ELSE default

-----------------------------------------------------------------------------
(* Outcomes *)

Ok == [type |-> "ok", text |-> "", cmd |-> <<>>, names |-> {}]

\* raise RuntimeError(f'{cmd} ...{names}')
RuntimeError(text, cmd, names) ==
    [type |-> "RuntimeError", text |-> text, cmd |-> cmd, names |-> names]

\* None += number
TypeError ==
    [type |-> "TypeError", text |-> "unsupported operand type(s) for +=",
     cmd |-> <<>>, names |-> {}]

\* float() of a text that is no number
ValueError ==
    [type |-> "ValueError", text |-> "could not convert string to float",
     cmd |-> <<>>, names |-> {}]

\* arg[0] of an empty str
IndexError ==
    [type |-> "IndexError", text |-> "string index out of range",
     cmd |-> <<>>, names |-> {}]

\* p read before its first assignment
UnboundLocalError ==
    [type |-> "UnboundLocalError", text |-> "local variable 'p' referenced before assignment",
     cmd |-> <<>>, names |-> {}]

-----------------------------------------------------------------------------
(* GCodeInstruction *)

\* GCodeInstruction(cmd, required_params, optional_params, func, ignore_unknown).
\* required_params and optional_params are dicts from a letter to
\* Parameter(letter, float); every registered type is float, so a dict is
\* modelled by its set of keys.  func is the name of the handler.
GCodeInstruction(cmd, required_params, optional_params, func, ignore_unknown) ==
    [cmd |-> cmd, required_params |-> required_params,
     optional_params |-> optional_params, func |-> func,
     ignore_unknown |-> ignore_unknown]

\* the params property: required_params.copy() updated with optional_params
params(instr) == instr.required_params \cup instr.optional_params

\* One iteration of the loop of parse over args[k..]: d is the dict built so
\* far, required the set of letters added, p the local variable p (None
\* before its first assignment).  Returns [err, d].
RECURSIVE parse_loop(_, _, _, _, _, _, _)
parse_loop(instr, cmd, args, k, d, required, p) ==
    IF k > Len(args)
    THEN LET missing == instr.required_params \ required
         IN  IF missing # {}
             THEN [err |-> RuntimeError("required arguments missing for", cmd, missing),
                   d |-> d]
             ELSE [err |-> Ok, d |-> d]
    ELSE LET arg == args[k]
         IN  IF arg = <<>>
             THEN [err |-> IndexError, d |-> d]
             ELSE IF arg[1] \notin params(instr)
             THEN IF instr.ignore_unknown
                  THEN parse_loop(instr, cmd, args, k + 1, d, required, p)
                  ELSE [err |-> RuntimeError("has no parameter", cmd, {arg[1]}),
                        d |-> d]
             ELSE IF arg[1] \in instr.required_params /\ p = None
             THEN [err |-> UnboundLocalError, d |-> d]
             ELSE LET seen == IF arg[1] \in instr.required_params
                              THEN required \cup {p[1]} ELSE required
                      v == float(Tail(arg))
                  IN  IF v = None
                      THEN [err |-> ValueError, d |-> d]
                      ELSE parse_loop(instr, cmd, args, k + 1,
                                      DictSet(d, arg[1], v[1]), seen, Some(arg[1]))

\* GCodeInstruction.parse(gcode): [err, d], d the dict returned when err = Ok
parse(instr, text) ==
    LET toks == split(text, " ")
    IN  parse_loop(instr, Head(toks), Tail(toks), 1, EmptyDict, {}, None)

-----------------------------------------------------------------------------
(* VirtualPrinter *)

\* VirtualPrinter.__init__: abs_mode is set to True whatever the argument;
\* instruction_set starts as the empty dict
VirtualPrinter(x, y, z, e, bed_temp, hotend_temp, fan_speed, feed_rate, ignore_unknown, abs_mode) ==
    [x |-> x, y |-> y, z |-> z, e |-> e, feed_rate |-> feed_rate,
     bed_temp |-> bed_temp, hotend_temp |-> hotend_temp, fan_speed |-> fan_speed,
     ignore_unknown |-> ignore_unknown, abs_mode |-> TRUE, abs_e_mode |-> TRUE]

\* register_gcode keeping the first instruction stored under cmd
register_gcode_keeps_first(iset, cmd, required_params, optional_params, func, ignore_unknown) ==
    IF cmd \in DOMAIN iset THEN iset
    ELSE DictSet(iset, cmd, GCodeInstruction(cmd, required_params, optional_params,
                                             func, ignore_unknown))

\* VirtualPrinter.register_gcode: the parameter lists become dicts keyed by
\* letter, and the instruction is stored under cmd (replacing any other)
register_gcode(iset, cmd, required_params, optional_params, func, ignore_unknown) ==
    DictSet(iset, cmd, GCodeInstruction(cmd, required_params, optional_params,
                                        func, ignore_unknown))

\* the result of a handler or of process_line: the printer it leaves and
\* Ok or the exception it raised
Result(p, e) == [printer |-> p, err |-> e]

\* printer.<field> += args.get(key, 0), after the statements that gave r;
\* nothing runs after an exception
AddTo(r, field, key, args) ==
    IF r.err # Ok THEN r
    ELSE IF r.printer[field] = None THEN Result(r.printer, TypeError)
    ELSE Result([r.printer EXCEPT ![field] =
                    Some(@[1] + (IF key \in DOMAIN args THEN args[key] ELSE 0))],
                Ok)

\* g28 with the extruder zeroed along with the axes
g28_zeroes_e(p, args) ==
    Result([p EXCEPT !.x = Some(0), !.y = Some(0), !.z = Some(0), !.e = Some(0)], Ok)

g28(p, args) == Result([p EXCEPT !.x = Some(0), !.y = Some(0), !.z = Some(0)], Ok)

\* g0's position statements with 0 as the default of args.get in absolute
\* mode too
g0_position_default_zero(p, args) ==
    IF p.abs_mode
    THEN Result([p EXCEPT !.x = get(args, "X", Some(0)),
                          !.y = get(args, "Y", Some(0)),
                          !.z = get(args, "Z", Some(0))], Ok)
    ELSE AddTo(AddTo(AddTo(Result(p, Ok), "x", "X", args), "y", "Y", args),
               "z", "Z", args)

\* the position statements of g0
g0_position(p, args) ==
    IF p.abs_mode
    THEN Result([p EXCEPT !.x = get(args, "X", p.x),
                          !.y = get(args, "Y", p.y),
                          !.z = get(args, "Z", p.z)], Ok)
    ELSE AddTo(AddTo(AddTo(Result(p, Ok), "x", "X", args), "y", "Y", args),
               "z", "Z", args)

\* the extrusion statements of g0, after the statements that gave r
g0_extrusion(r, args) ==
    IF r.err # Ok THEN r
    ELSE IF r.printer.abs_e_mode
    THEN Result([r.printer EXCEPT !.e = get(args, "E", r.printer.e)], Ok)
    ELSE AddTo(r, "e", "E", args)

\* the feed-rate statement of g0, after the statements that gave r
g0_feed_rate(r, args) ==
    IF r.err # Ok THEN r
    ELSE Result([r.printer EXCEPT !.feed_rate = get(args, "F", r.printer.feed_rate)], Ok)

g0(p, args) == g0_feed_rate(g0_extrusion(g0_position(p, args), args), args)

\* m104 with args.get('S') and no default
m104_without_default(p, args) == Result([p EXCEPT !.hotend_temp = get(args, "S", None)], Ok)

m104(p, args) == Result([p EXCEPT !.hotend_temp = get(args, "S", p.hotend_temp)], Ok)

m140(p, args) == Result([p EXCEPT !.bed_temp = get(args, "S", p.bed_temp)], Ok)

g90(p, args) == Result([p EXCEPT !.abs_mode = TRUE, !.abs_e_mode = TRUE], Ok)

g91(p, args) == Result([p EXCEPT !.abs_mode = FALSE, !.abs_e_mode = FALSE], Ok)

\* g92 following the modal flags as a move does
g92_modal(p, args) == g0_extrusion(g0_position(p, args), args)

g92(p, args) ==
    Result([p EXCEPT !.x = get(args, "X", p.x), !.y = get(args, "Y", p.y),
                     !.z = get(args, "Z", p.z), !.e = get(args, "E", p.e)], Ok)

m82(p, args) == Result([p EXCEPT !.abs_e_mode = TRUE], Ok)

\* m83 switching the position mode along with the extrusion mode
m83_both_modes(p, args) == Result([p EXCEPT !.abs_mode = FALSE, !.abs_e_mode = FALSE], Ok)

m83(p, args) == Result([p EXCEPT !.abs_e_mode = FALSE], Ok)

\* m106 writing the bed target
m106_sets_bed(p, args) == Result([p EXCEPT !.bed_temp = get(args, "S", p.bed_temp)], Ok)

m106(p, args) == Result([p EXCEPT !.fan_speed = get(args, "S", p.fan_speed)], Ok)

\* instr.func(self, args)
func(name, p, args) ==
    CASE name = "g28" -> g28(p, args)
      [] name = "g0" -> g0(p, args)
      [] name = "m104" -> m104(p, args)
      [] name = "m140" -> m140(p, args)
      [] name = "g90" -> g90(p, args)
      [] name = "g91" -> g91(p, args)
      [] name = "g92" -> g92(p, args)
      [] name = "m82" -> m82(p, args)
      [] name = "m83" -> m83(p, args)
      [] name = "m106" -> m106(p, args)

\* the text process_line looks up and parses: gcode.split(';')[0].strip()
code_of(text) == strip(Head(split(text, ";")))

\* the command word: [cmd, *_] = gcode.split(" ")
cmd_of(text) == Head(split(code_of(text), " "))

\* process_line with the unknown-command branch always returning
process_line_ignoring_policy(p, iset, text) ==
    IF startswith(text, ";") THEN Result(p, Ok)
    ELSE LET code == code_of(text)
             cmd == cmd_of(text)
         IN  IF cmd \notin DOMAIN iset
             THEN Result(p, Ok)
             ELSE LET instr == iset[cmd]
                      parsed == parse(instr, code)
                  IN  IF parsed.err # Ok THEN Result(p, parsed.err)
                      ELSE func(instr.func, p, parsed.d)

\* VirtualPrinter.process_line(gcode), on the printer of fields p and
\* instruction set iset
process_line(p, iset, text) ==
    IF startswith(text, ";") THEN Result(p, Ok)
    ELSE LET code == code_of(text)
             cmd == cmd_of(text)
         IN  IF cmd \notin DOMAIN iset
             THEN IF p.ignore_unknown THEN Result(p, Ok)
                  ELSE Result(p, RuntimeError("unknown instruction", cmd, {}))
             ELSE LET instr == iset[cmd]
                      parsed == parse(instr, code)
                  IN  IF parsed.err # Ok THEN Result(p, parsed.err)
                      ELSE func(instr.func, p, parsed.d)

-----------------------------------------------------------------------------
(* create_printer *)

G0 == <<"G", "0">>
G1 == <<"G", "1">>
G28 == <<"G", "2", "8">>
G90 == <<"G", "9", "0">>
G91 == <<"G", "9", "1">>
G92 == <<"G", "9", "2">>
M82 == <<"M", "8", "2">>
M83 == <<"M", "8", "3">>
M104 == <<"M", "1", "0", "4">>
M106 == <<"M", "1", "0", "6">>
M109 == <<"M", "1", "0", "9">>
M140 == <<"M", "1", "4", "0">>
M190 == <<"M", "1", "9", "0">>

\* the register_gcode calls of create_printer, in order
Registrations ==
    << <<G28, {}, {}, "g28">>,
       <<G0, {}, {"X", "Y", "Z", "E", "F"}, "g0">>,
       <<G1, {}, {"X", "Y", "Z", "E"}, "g0">>,
       <<M104, {}, {"S"}, "m104">>,
       <<M109, {}, {"S"}, "m104">>,
       <<M140, {}, {"S"}, "m140">>,
       <<M190, {}, {"S"}, "m140">>,
       <<M106, {}, {"S"}, "m106">>,
       <<G90, {}, {}, "g90">>,
       <<G91, {}, {}, "g91">>,
       <<M82, {}, {}, "m82">>,
       <<M83, {}, {}, "m83">>,
       <<G92, {}, {"X", "Y", "Z", "E"}, "g92">> >>

RECURSIVE register_all(_, _)
register_all(iset, k) ==
    IF k > Len(Registrations) THEN iset
    ELSE register_all(register_gcode(iset, Registrations[k][1], Registrations[k][2],
                                     Registrations[k][3], Registrations[k][4], TRUE),
                      k + 1)

\* for each cmd create_printer registers, the arguments of its latest
\* register_gcode call: <<required, optional, func, ignore_unknown>>
LatestRegistration ==
    [c \in {Registrations[k][1] : k \in 1..Len(Registrations)} |->
        LET k == CHOOSE j \in 1..Len(Registrations) :
                     /\ Registrations[j][1] = c
                     /\ \A m \in (j + 1)..Len(Registrations) : Registrations[m][1] # c
        IN  <<Registrations[k][2], Registrations[k][3], Registrations[k][4], TRUE>>]

\* create_printer(): the fields of VirtualPrinter() and the instruction set
\* its register_gcode calls leave
create_printer ==
    [printer |-> VirtualPrinter(None, None, None, None, None, None, None, None,
                                TRUE, TRUE),
     instruction_set |-> register_all(EmptyDict, 1)]

-----------------------------------------------------------------------------
(* The command lines the model feeds the interpreter *)

\* " ".join(words)
RECURSIVE Join(_)
Join(words) ==
    IF Len(words) = 1 THEN words[1]
    ELSE words[1] \o <<" ">> \o Join(Tail(words))

\* the elements of a set of numbers, in increasing order
RECURSIVE Ascending(_)
Ascending(S) ==
    IF S = {} THEN <<>>
    ELSE LET m == CHOOSE a \in S : \A b \in S : a <= b
         IN  <<m>> \o Ascending(S \ {m})

\* the lines made of cmd followed by at most MaxArgs of the tokens toks, in
\* the order of toks
CommandLines(cmd, toks) ==
    { Join(<<cmd>> \o [k \in 1..Cardinality(S) |-> toks[Ascending(S)[k]]]) :
        S \in {T \in SUBSET (1..Len(toks)) : Cardinality(T) <= MaxArgs} }

\* parameter tokens: a coordinate of 1, a feed rate of 3, a target of 7
AxisTokens == << <<"X", "1">>, <<"Y", "1">>, <<"Z", "1">>, <<"E", "1">> >>
MoveTokens == AxisTokens \o << <<"F", "3">> >>

\* G28 alone, and G28 followed by a token G28 does not declare
HomeLines == {G28, Join(<<G28, <<"X">> >>)}
MoveLines == CommandLines(G0, MoveTokens) \cup CommandLines(G1, MoveTokens)
SetPositionLines == CommandLines(G92, AxisTokens)
ModeLines == {G90, G91, M82, M83}
TemperatureLines ==
    {Join(<<c, <<"S", "7">> >>) : c \in {M104, M109, M140, M190, M106}}
        \cup {M104, M109, M140, M190, M106}

\* lines that change nothing: a comment, a blank line, a command that is
\* not registered, a command followed by a comment
SkipLines ==
    { <<";", "G", "2", "8">>,
      <<>>,
      <<"M", "1", "1", "7">> }

\* lines that make parse raise: a parameter with no literal, a parameter
\* whose literal is no number, an empty token between two spaces
MalformedLines ==
    { Join(<<G1, <<"X", "1">>, <<"Y">> >>),
      Join(<<G92, <<"E", "-">> >>),
      Join(<<G0, <<>>, <<"X", "1">> >>) }

Lines ==
    HomeLines \cup MoveLines \cup SetPositionLines \cup ModeLines
        \cup TemperatureLines \cup SkipLines \cup MalformedLines

-----------------------------------------------------------------------------
(* The interpreter driven one line at a time *)

\* the targets a printer may be constructed with: VirtualPrinter() as
\* create_printer calls it, or the constructor's bed_temp, hotend_temp and
\* fan_speed arguments given
Targets ==
    { [bed_temp |-> None, hotend_temp |-> None, fan_speed |-> None],
      [bed_temp |-> Some(7), hotend_temp |-> Some(8), fan_speed |-> Some(9)] }

Init ==
    /\ \E t \in Targets :
          printer = [create_printer.printer EXCEPT
                        !.bed_temp = t.bed_temp, !.hotend_temp = t.hotend_temp,
                        !.fan_speed = t.fan_speed]
    /\ instruction_set = create_printer.instruction_set
    /\ declared = LatestRegistration
    /\ line = <<>>
    /\ err = Ok
    /\ pre = printer
    /\ gcode = <<>>
    /\ pos = 0
    /\ pc = "idle"

\* the numeric position fields stay within the model's range
InRange(p) ==
    \A f \in {"x", "y", "z", "e"} :
        IF p[f] = None THEN TRUE ELSE p[f][1] <= MaxCoord

\* one call printer.process_line(l), up to its return or its exception
ProcessLine(l) ==
    LET r == process_line(printer, instruction_set, l)
    IN  /\ pc = "idle"
        /\ InRange(r.printer)
        /\ printer' = r.printer
        /\ line' = l
        /\ err' = r.err
        /\ pre' = printer
        /\ pc' = "returned"
        /\ UNCHANGED <<instruction_set, declared, gcode, pos>>

Home == \E l \in HomeLines : ProcessLine(l)
Move == \E l \in MoveLines : ProcessLine(l)
SetPosition == \E l \in SetPositionLines : ProcessLine(l)
SetMode == \E l \in ModeLines : ProcessLine(l)
SetTemperature == \E l \in TemperatureLines : ProcessLine(l)
Skip == \E l \in SkipLines : ProcessLine(l)
Malformed == \E l \in MalformedLines : ProcessLine(l)

\* the caller has seen how the call ended and is ready for another one
Return ==
    /\ pc = "returned"
    /\ pc' = "idle"
    /\ line' = <<>>
    /\ err' = Ok
    /\ pre' = printer
    /\ UNCHANGED <<printer, instruction_set, declared, gcode, pos>>

Next ==
    \/ Home
    \/ Move
    \/ SetPosition
    \/ SetMode
    \/ Skip
    \/ Malformed
    \/ Return

Spec == Init /\ [][Next]_vars

\* a few moves and position settings, one of them malformed
JogLines ==
    { Join(<<G1, <<"X", "1">> >>),
      Join(<<G1, <<"X", "1">>, <<"E", "1">> >>),
      Join(<<G0, <<"E", "1">>, <<"F", "3">> >>),
      Join(<<G92, <<"X", "1">> >>),
      Join(<<G92, <<"E", "-">> >>) }

Jog == \E l \in JogLines : ProcessLine(l)

\* the interpreter fed the temperature and fan commands as well as the
\* modal and homing ones and a few moves
NextTargets ==
    \/ SetTemperature
    \/ SetMode
    \/ Home
    \/ Jog
    \/ Return

SpecTargets == Init /\ [][NextTargets]_vars

-----------------------------------------------------------------------------
(* run_gcode *)

\* the lines of the lists handed to run_gcode
RunLines ==
    { G28, G91,
      Join(<<G92, <<"X", "1">> >>),
      Join(<<G1, <<"X", "1">> >>),
      Join(<<G1, <<"E", "1">> >>),
      Join(<<G92, <<"E", "-">> >>) }

\* the lists of at most n lines
RECURSIVE Lists(_)
Lists(n) ==
    IF n = 0 THEN {<<>>}
    ELSE Lists(n - 1) \cup
         {Append(ls, l) : ls \in {q \in Lists(n - 1) : Len(q) = n - 1}, l \in RunLines}

\* run_gcode(create_printer(), gcode) about to start
InitRun ==
    /\ printer = create_printer.printer
    /\ instruction_set = create_printer.instruction_set
    /\ declared = LatestRegistration
    /\ line = <<>>
    /\ err = Ok
    /\ pre = printer
    /\ gcode \in Lists(MaxLines)
    /\ pos = 0
    /\ pc = "running"

\* one iteration of the for loop: printer.process_line(line); an exception
\* leaves the loop and run_gcode
RunStep ==
    /\ pc = "running"
    /\ pos < Len(gcode)
    /\ LET r == process_line(printer, instruction_set, gcode[pos + 1])
       IN  /\ printer' = r.printer
           /\ line' = gcode[pos + 1]
           /\ err' = r.err
           /\ pre' = printer
           /\ pc' = IF r.err = Ok THEN "running" ELSE "raised"
    /\ pos' = pos + 1
    /\ UNCHANGED <<instruction_set, declared, gcode>>

\* the for loop is exhausted: run_gcode returns
RunDone ==
    /\ pc = "running"
    /\ pos = Len(gcode)
    /\ pc' = "done"
    /\ UNCHANGED <<printer, instruction_set, declared, line, err, pre, gcode, pos>>

NextRun ==
    \/ RunStep
    \/ RunDone

SpecRun == InitRun /\ [][NextRun]_vars

-----------------------------------------------------------------------------
(* Vocabulary of the properties: the last call as its caller sees it *)

\* a process_line call has ended, by return or by exception
Returned == pc = "returned"

\* the parameter tokens of the line of the last call, as written on it
Tokens == Tail(split(code_of(line), " "))

\* the line carries a token of letter a
Carries(a) == \E k \in 1..Len(Tokens) : startswith(Tokens[k], a)

\* the number the line gives for letter a (by its last token of that letter)
Given(a) ==
    LET k == CHOOSE j \in 1..Len(Tokens) :
                 /\ startswith(Tokens[j], a)
                 /\ \A m \in (j + 1)..Len(Tokens) : ~startswith(Tokens[m], a)
    IN  float(Tail(Tokens[k]))

\* the last call was of a G0 or G1 line
IsMove == cmd_of(line) \in {G0, G1}

\* the last call got as far as the handler: the parser raised nothing
HandlerCalled == err.type \in {"ok", "TypeError"}

FieldOf(a) ==
    CASE a = "X" -> "x" [] a = "Y" -> "y" [] a = "Z" -> "z" [] a = "E" -> "e"
      [] a = "F" -> "feed_rate"

\* the fields in F are as they were before the call
Same(F) == \A f \in F : printer[f] = pre[f]

\* the field of letter a is the given number if the line carries a, and as
\* it was before the call if not
Overwritten(a) ==
    printer[FieldOf(a)] = IF Carries(a) THEN Given(a) ELSE pre[FieldOf(a)]

\* the field of letter a is its old value plus the given number if the line
\* carries a, and as it was before the call if not
Added(a) ==
    printer[FieldOf(a)] =
        IF Carries(a) THEN Some(pre[FieldOf(a)][1] + Given(a)[1])
        ELSE pre[FieldOf(a)]

TargetFields == {"bed_temp", "hotend_temp", "fan_speed"}
Modes == {"abs_mode", "abs_e_mode"}
AllFields ==
    {"x", "y", "z", "e", "feed_rate"} \cup TargetFields \cup Modes \cup {"ignore_unknown"}

-----------------------------------------------------------------------------
(* The properties *)

\* C1: in relative position mode, a G0/G1 line that reaches its handler and
\* carries X, Y or Z for a coordinate that is unknown fails with an error
\* (the InvalidStateError; here whatever exception the handler raises) that
\* names that coordinate, and the coordinate is still unknown.
C1_RelativeMoveOnUnknownNamesCoordinate ==
    \A a \in {"X", "Y", "Z"} :
        (/\ Returned /\ IsMove /\ HandlerCalled /\ ~pre.abs_mode
         /\ Carries(a) /\ pre[FieldOf(a)] = None)
            => (/\ err # Ok /\ a \in err.names
                /\ printer[FieldOf(a)] = None)

\* the last call failed in one of the ways the per-line atomicity rule
\* lists: in the lookup or the parser (unknown command, unknown, missing or
\* malformed parameter), or in a relative move that carries a letter of an
\* unknown coordinate
ListedFailure ==
    \/ err.type \in {"RuntimeError", "ValueError"}
    \/ /\ err.type = "TypeError" /\ IsMove /\ ~pre.abs_mode
       /\ \E a \in {"X", "Y", "Z"} : Carries(a) /\ pre[FieldOf(a)] = None

\* C2: a process_line call that fails (unknown command, unknown, missing or
\* malformed parameter, relative move on an unknown coordinate) leaves
\* every field of the printer as it was before the call.
C2_FailedLineChangesNothing ==
    (Returned /\ ListedFailure) => Same(AllFields)

\* the printer after process_line over the lines ls in order, from p
RECURSIVE Replay(_, _)
Replay(p, ls) ==
    IF ls = <<>> THEN p
    ELSE Replay(process_line(p, create_printer.instruction_set, Head(ls)).printer,
                Tail(ls))

\* C3: run_gcode applies the lines in order and stops at the first one that
\* fails: if that is line k, the printer is as lines 1..k-1 left it and no
\* later line is taken; if none fails, the printer is as all the lines in
\* order leave it.
C3_RunStopsAtFirstFailure ==
    /\ pc = "raised" =>
          printer = Replay(create_printer.printer, SubSeq(gcode, 1, pos - 1))
    /\ pc = "done" =>
          (pos = Len(gcode) /\ printer = Replay(create_printer.printer, gcode))

\* C4: in relative position mode, a G0/G1 line whose X/Y/Z letters all refer
\* to known coordinates succeeds, adds each given value to its coordinate
\* and leaves the coordinates it does not carry unchanged, known or unknown.
C4_RelativeMoveAdds ==
    (/\ Returned /\ IsMove /\ HandlerCalled /\ ~pre.abs_mode
     /\ \A a \in {"X", "Y", "Z"} : Carries(a) => pre[FieldOf(a)] # None)
        => (err = Ok /\ \A a \in {"X", "Y", "Z"} : Added(a))

\* C5: in absolute position mode, a G0/G1 line that reaches its handler sets
\* each of x, y, z whose letter it carries to the given value and leaves the
\* others of x, y, z unchanged (unknown included); the three targets and
\* both modal flags are unchanged.
C5_AbsoluteMoveOverwrites ==
    (Returned /\ IsMove /\ HandlerCalled /\ pre.abs_mode)
        => (/\ \A a \in {"X", "Y", "Z"} : Overwritten(a)
            /\ Same(TargetFields \cup Modes))

\* an absolute G1 X1 on a printer that knows neither x nor y, with the
\* targets set: x becomes 1 and y stays unknown
C5_Witness ==
    /\ Returned /\ cmd_of(line) = G1 /\ err = Ok /\ pre.abs_mode
    /\ Carries("X") /\ ~Carries("Y")
    /\ pre.x = None /\ pre.y = None /\ pre.bed_temp = Some(7)
    /\ printer.x = Some(1) /\ printer.y = None

\* C6: for G0/G1 a given E is applied by the extrusion mode alone: it
\* overwrites e when extrusion is absolute and is added to a known e when
\* extrusion is relative, whatever the position mode (no carried X/Y/Z
\* being an unknown coordinate in relative position mode).
C6_ExtrusionFollowsExtrusionMode ==
    (/\ Returned /\ IsMove /\ HandlerCalled /\ Carries("E")
     /\ (pre.abs_e_mode \/ pre.e # None)
     /\ (~pre.abs_mode => \A a \in {"X", "Y", "Z"} : Carries(a) => pre[FieldOf(a)] # None))
        => IF pre.abs_e_mode THEN Overwritten("E") ELSE Added("E")

\* C7: a G0 or G1 line that succeeds sets feed_rate to the F it carries and
\* leaves feed_rate unchanged when it carries none.
C7_MoveSetsFeedRate ==
    (Returned /\ IsMove /\ err = Ok) => Overwritten("F")

\* C8: a G92 line that reaches its handler succeeds, sets each of x, y, z, e
\* whose letter it carries to the given value and leaves the others
\* unchanged, in either mode and from unknown values; feed rate, targets and
\* modal flags are unchanged.
C8_SetPositionOverwrites ==
    (Returned /\ cmd_of(line) = G92 /\ HandlerCalled)
        => (/\ err = Ok
            /\ \A a \in {"X", "Y", "Z", "E"} : Overwritten(a)
            /\ Same({"feed_rate"} \cup TargetFields \cup Modes))

\* a G92 carrying X and E with both modes relative, x unknown and e = 2:
\* x and e become the given 1
C8_Witness ==
    /\ Returned /\ cmd_of(line) = G92 /\ err = Ok
    /\ ~pre.abs_mode /\ ~pre.abs_e_mode
    /\ Carries("X") /\ Carries("E")
    /\ pre.x = None /\ pre.e = Some(2)
    /\ printer.x = Some(1) /\ printer.e = Some(1)

\* C9: G28 succeeds, leaves x = y = z = 0 and leaves e, feed_rate, the
\* targets and both modal flags as they were.
C9_HomeZeroesPosition ==
    (Returned /\ cmd_of(line) = G28)
        => (/\ err = Ok
            /\ printer.x = Some(0) /\ printer.y = Some(0) /\ printer.z = Some(0)
            /\ Same({"e", "feed_rate"} \cup TargetFields \cup Modes))

\* a G28 in relative mode on a printer with x = 2, y unknown, and e, the
\* feed rate and the targets set
C9_Witness ==
    /\ Returned /\ cmd_of(line) = G28 /\ err = Ok
    /\ pre.x = Some(2) /\ pre.y = None /\ pre.e = Some(1)
    /\ pre.feed_rate = Some(3) /\ pre.bed_temp = Some(7) /\ ~pre.abs_mode
    /\ printer.x = Some(0) /\ printer.y = Some(0) /\ printer.e = Some(1)

\* C10: G90 sets both modes absolute, G91 both relative, M82 the extrusion
\* mode absolute and M83 the extrusion mode relative with the position mode
\* untouched; none changes a position, the feed rate or a target.
C10_ModeCommandsChangeOnlyModes ==
    (Returned /\ cmd_of(line) \in {G90, G91, M82, M83})
        => (/\ err = Ok
            /\ Same({"x", "y", "z", "e", "feed_rate"} \cup TargetFields)
            /\ printer.abs_mode =
                  (IF cmd_of(line) = G90 THEN TRUE
                   ELSE IF cmd_of(line) = G91 THEN FALSE ELSE pre.abs_mode)
            /\ printer.abs_e_mode = (cmd_of(line) \in {G90, M82}))

\* an M82 on a printer with both modes relative and a known x: only the
\* extrusion mode becomes absolute
C10_Witness ==
    /\ Returned /\ cmd_of(line) = M82 /\ err = Ok
    /\ ~pre.abs_mode /\ ~pre.abs_e_mode /\ pre.x = Some(1)
    /\ ~printer.abs_mode /\ printer.abs_e_mode

-----------------------------------------------------------------------------
(* the unknown-command policy: VirtualPrinter(ignore_unknown=...) *)

M117 == <<"M", "1", "1", "7">>

\* comment lines, with and without leading whitespace, and blank lines
CommentLines ==
    { <<";">> \o G28,
      <<" ", ";">> \o G28,
      <<>>,
      <<" ">>,
      <<"\t">> }

\* lines of a command nothing registers, and a registered command followed
\* by a comment
UnknownLines ==
    { M117,
      Join(<<M117, <<"X", "1">> >>),
      Join(<<M117, <<";">> \o G28>>) }

\* a printer constructed with either policy, with the instruction set of
\* create_printer
InitPolicy ==
    /\ \E ignore_unknown \in BOOLEAN :
           printer = VirtualPrinter(None, None, None, None, None, None, None,
                                    None, ignore_unknown, TRUE)
    /\ instruction_set = create_printer.instruction_set
    /\ declared = LatestRegistration
    /\ line = <<>>
    /\ err = Ok
    /\ pre = printer
    /\ gcode = <<>>
    /\ pos = 0
    /\ pc = "idle"

Comment == \E l \in CommentLines : ProcessLine(l)
Unknown == \E l \in UnknownLines : ProcessLine(l)

NextPolicy ==
    \/ Comment
    \/ Unknown
    \/ Home
    \/ SetMode
    \/ Return

SpecPolicy == InitPolicy /\ [][NextPolicy]_vars

\* the line is blank, or its trimmed text starts with the comment marker
BlankOrComment == strip(line) = <<>> \/ startswith(strip(line), ";")

\* C11: under either unknown-command policy, a blank line or a line whose
\* trimmed text starts with ';' succeeds and leaves every field unchanged.
C11_BlankAndCommentLinesSucceed ==
    (Returned /\ BlankOrComment) => (err = Ok /\ Same(AllFields))

\* C12: a line whose command is not registered leaves every field
\* unchanged; it succeeds under the ignore policy and fails with the
\* unknown-instruction error naming the command under the fail policy.
C12_UnknownCommandFollowsPolicy ==
    (/\ Returned
     /\ ~startswith(line, ";")
     /\ cmd_of(line) # <<>>
     /\ cmd_of(line) \notin DOMAIN instruction_set)
        => (/\ Same(AllFields)
            /\ err = (IF pre.ignore_unknown THEN Ok
                      ELSE RuntimeError("unknown instruction", cmd_of(line), {})))

\* an M117 on a homed printer in relative mode under the fail policy
C12_Witness ==
    /\ Returned /\ cmd_of(line) = M117 /\ Tokens # <<>>
    /\ ~pre.ignore_unknown /\ pre.x = Some(0) /\ ~pre.abs_mode
    /\ err.type = "RuntimeError" /\ printer = pre

-----------------------------------------------------------------------------
(* register_gcode with required parameters and either unknown-parameter
   policy, and process_line on the instructions it registers *)

M1 == <<"M", "1">>

\* the letters a registration declares
Letters == {"S", "P"}

\* the register_gcode calls: a new cmd or one create_printer registered,
\* disjoint required and optional letters, a handler, either policy
Register(cmd, required_params, optional_params, f, ignore_unknown) ==
    /\ pc = "idle"
    /\ instruction_set' = register_gcode(instruction_set, cmd, required_params,
                                         optional_params, f, ignore_unknown)
    /\ declared' = DictSet(declared, cmd,
                           <<required_params, optional_params, f, ignore_unknown>>)
    /\ UNCHANGED <<printer, line, err, pre, gcode, pos, pc>>

RegisterNew ==
    \E required_params \in SUBSET Letters :
        \E optional_params \in SUBSET (Letters \ required_params) :
            \E f \in {"g28", "m104"}, ignore_unknown \in BOOLEAN :
                Register(M1, required_params, optional_params, f, ignore_unknown)

RegisterAgain ==
    \E required_params \in SUBSET Letters :
        \E optional_params \in SUBSET (Letters \ required_params) :
            \E f \in {"g28", "m104"}, ignore_unknown \in BOOLEAN :
                Register(G28, required_params, optional_params, f, ignore_unknown)

\* tokens of the declared letters S and P and of the letter Q nothing declares
ParameterTokens == << <<"S", "7">>, <<"P", "7">>, <<"Q", "1">> >>

\* the lines made of cmd followed by at most MaxArgs distinct tokens of toks,
\* in every order
OrderedLines(cmd, toks) ==
    { Join(<<cmd>> \o [k \in 1..Len(s) |-> toks[s[k]]]) :
        s \in UNION { {t \in [1..n -> 1..Len(toks)] :
                          \A i, j \in 1..n : i # j => t[i] # t[j]} :
                      n \in 0..MaxArgs } }

ParameterLines == OrderedLines(M1, ParameterTokens)

Parameters == \E l \in ParameterLines : ProcessLine(l)

NextRegister ==
    \/ RegisterNew
    \/ RegisterAgain
    \/ Parameters
    \/ Home
    \/ Return

SpecRegister == Init /\ [][NextRegister]_vars

\* the instruction the line's command resolves to
Registered == cmd_of(line) \in DOMAIN instruction_set
Instruction == instruction_set[cmd_of(line)]

\* the letters of the line's parameter tokens
LineLetters == {Tokens[k][1] : k \in {j \in 1..Len(Tokens) : Tokens[j] # <<>>}}

\* every token is a letter followed by a decimal literal
WellFormed ==
    \A k \in 1..Len(Tokens) :
        Tokens[k] # <<>> /\ float(Tail(Tokens[k])) # None

\* C13: for a registered instruction, also one declaring required
\* parameters, a line carrying every required letter and no undeclared
\* letter parses successfully into a map whose keys are exactly the
\* line's letters.
C13_ParseReturnsTheLettersOfTheLine ==
    (/\ Returned /\ Registered /\ WellFormed
     /\ Instruction.required_params \subseteq LineLetters
     /\ LineLetters \subseteq params(Instruction))
        => LET parsed == parse(Instruction, code_of(line))
           IN  /\ parsed.err = Ok
               /\ DOMAIN parsed.d = LineLetters
               /\ err = Ok

\* C14: when the letters of the line do not cover the required letters,
\* parse fails with the missing-arguments error reporting exactly the
\* required letters that are absent, and the handler does not run.
C14_MissingReportsAbsentRequiredLetters ==
    (/\ Returned /\ Registered /\ WellFormed
     /\ Instruction.required_params \ LineLetters # {}
     /\ (Instruction.ignore_unknown \/ LineLetters \subseteq params(Instruction)))
        => (/\ err = RuntimeError("required arguments missing for", cmd_of(line),
                                  Instruction.required_params \ LineLetters)
            /\ printer = pre)

\* the line without the tokens whose letter the instruction does not declare
Declared(toks) ==
    SelectSeq(toks, LAMBDA t : t # <<>> /\ t[1] \in params(Instruction))

\* the first token whose letter the instruction does not declare
FirstUndeclared ==
    Tokens[CHOOSE k \in 1..Len(Tokens) :
               /\ Tokens[k][1] \notin params(Instruction)
               /\ \A j \in 1..(k - 1) : Tokens[j][1] \in params(Instruction)]

\* C15: a token of an undeclared letter is skipped under the instruction's
\* ignore policy (the line behaves as the line without it, and the result
\* has no key for the letter); under the fail policy parse fails with the
\* no-parameter error naming the command and the letter, and the handler
\* does not run.
C15_UndeclaredLetterFollowsPolicy ==
    (/\ Returned /\ Registered /\ WellFormed
     /\ ~(LineLetters \subseteq params(Instruction)))
        => IF Instruction.ignore_unknown
           THEN LET parsed == parse(Instruction, code_of(line))
                    purged == process_line(pre, instruction_set,
                                           Join(<<cmd_of(line)>> \o Declared(Tokens)))
                IN  /\ DOMAIN parsed.d \subseteq params(Instruction)
                    /\ printer = purged.printer
                    /\ err = purged.err
           ELSE /\ err = RuntimeError("has no parameter", cmd_of(line),
                                      {FirstUndeclared[1]})
                /\ printer = pre

\* C17: looking up a code returns the declaration of the latest
\* register_gcode call for that code, whatever was registered before and
\* whatever other codes were registered since.
C17_LookupReturnsLatestRegistration ==
    /\ DOMAIN instruction_set = DOMAIN declared
    /\ \A c \in DOMAIN declared :
           instruction_set[c] =
               [cmd |-> c, required_params |-> declared[c][1],
                optional_params |-> declared[c][2], func |-> declared[c][3],
                ignore_unknown |-> declared[c][4]]

\* G28 registered again with required S, optional P, the handler m104 and
\* the fail policy, next to a new M1 and the untouched G0 of create_printer
C17_Witness ==
    /\ declared[G28] = <<{"S"}, {"P"}, "m104", FALSE>>
    /\ LatestRegistration[G28] # declared[G28]
    /\ instruction_set[G28].func = "m104"
    /\ M1 \in DOMAIN instruction_set
    /\ instruction_set[M1].required_params = {"P"}
    /\ instruction_set[G0] = create_printer.instruction_set[G0]

-----------------------------------------------------------------------------
(* targets and knownness *)

TargetCommands == {M104, M109, M140, M190, M106}

\* the field a temperature or fan command writes
TargetOf(c) ==
    CASE c \in {M104, M109} -> "hotend_temp"
      [] c \in {M140, M190} -> "bed_temp"
      [] c = M106 -> "fan_speed"

\* C18: M104 and M109 with S set the hotend target to the value, M140 and
\* M190 the bed target, M106 the fan speed; without S the command changes
\* nothing, and with S no field but its own target changes.
C18_TargetCommandsSetTheirOwnTarget ==
    (Returned /\ cmd_of(line) \in TargetCommands)
        => (/\ err = Ok
            /\ printer[TargetOf(cmd_of(line))] =
                  (IF Carries("S") THEN Given("S")
                   ELSE pre[TargetOf(cmd_of(line))])
            /\ Same(AllFields \ {TargetOf(cmd_of(line))}))

\* an M109 S7 on a printer with the bed at 7, the hotend at 8, the fan at 9
\* and a known x
C18_Witness ==
    /\ Returned /\ cmd_of(line) = M109 /\ Carries("S") /\ err = Ok
    /\ pre.bed_temp = Some(7) /\ pre.hotend_temp = Some(8) /\ pre.fan_speed = Some(9)
    /\ pre.x = Some(1)
    /\ printer.hotend_temp = Some(7) /\ printer.fan_speed = Some(9)

\* the fields that hold a number or None
NumericFields == {"x", "y", "z", "e", "feed_rate"} \cup TargetFields

\* C20: a position, the feed rate or a target that holds a number holds a
\* number after every later step, whether the call succeeds or fails.
C20_KnownStaysKnown ==
    [][\A f \in NumericFields : printer[f] # None => printer'[f] # None]_vars

\* a relative G1 X1 E1 that failed on the unknown e after moving the known
\* x, on a printer whose targets are known
C20_Witness ==
    /\ Returned /\ IsMove /\ err = TypeError
    /\ pre.x = Some(1) /\ printer.x = Some(2) /\ pre.e = None
    /\ pre.hotend_temp = Some(7) /\ printer.hotend_temp = Some(7)
    /\ pre.fan_speed = Some(9) /\ printer.fan_speed = Some(9)

-----------------------------------------------------------------------------
(* whitespace between tokens *)

\* text with every run of two or more whitespace characters replaced by a
\* single space
RECURSIVE Collapse(_)
Collapse(text) ==
    IF Len(text) < 2 THEN text
    ELSE IF text[1] \in Whitespace /\ text[2] \in Whitespace
    THEN Collapse(<<" ">> \o Tail(Tail(text)))
    ELSE <<text[1]>> \o Collapse(Tail(text))

\* C19: a line with two or more whitespace characters between tokens has
\* the outcome and leaves the state of the same line with single spaces;
\* the run of whitespace raises nothing and drops no parameter.
C19_WhitespaceRunsSeparateTokens ==
    (Returned /\ Collapse(line) # line)
        => LET single == process_line(pre, instruction_set, Collapse(line))
           IN  err = single.err /\ printer = single.printer

=============================================================================
